---- MODULE Spec2Model ----
(***************************************************************************)
(* core::parallel::DisjointIntIntervals (disjoint_int_intervals.h).        *)
(*                                                                         *)
(* The header holds two versions of Insert: the statement that is compiled *)
(* (lines 64-65, "Fix me later!  return true;") and the body that follows  *)
(* it inside a comment (lines 67-106).  Both are modelled:                 *)
(*   Spec      the class as shipped          (Init, Insert)                *)
(*   SpecBody  the class with the commented  (Init, InsertBody)            *)
(*             body in place of the stub                                   *)
(* intervals_ is the std::map in iteration order (key and mapped value are *)
(* always the same pair, so only the key is kept).  log is the history of  *)
(* the calls made on the object, with what each one returned.              *)
(*   SpecWorkers  several workers call the commented body of Insert on one *)
(*             shared registry, each call in two steps: the query of lines *)
(*             68-74 and the erase/insert of lines 76-105.  locked tells   *)
(*             whether the callers wrap a call in a critical section;      *)
(*             pending is what a worker holds between its two steps.       *)
(*                                                                         *)
(* mlpack::kde::Kde (kde_dev.h).                                           *)
(*   SpecKde   ParseArguments fills a KdeArguments (arguments), Init       *)
(*             copies it into the Kde object (kde), Compute drives the     *)
(*             dual-tree engine; compute holds Compute's position and the  *)
(*             calls it has made on the engine and its iterator, heap the  *)
(*             objects made with new.                                      *)
(***************************************************************************)
EXTENDS Integers, Sequences, FiniteSets

VARIABLES intervals_, log, pending, locked, heap, arguments, kde, compute

vars == <<intervals_, log, pending, locked, heap, arguments, kde, compute>>

\* The registry's own state and the history of its calls.
registryVars == <<intervals_, log>>

\* The state of the KDE driver.
kdeVars == <<heap, arguments, kde, compute>>

\* What the workers of a parallel run add to the registry's own state.
workerVars == <<pending, locked>>

\* Largest coordinate of an interval handed to Insert.
MaxCoord == 2

\* Number of calls made on one object.
MaxCalls == 3

Coord == 0..MaxCoord

\* typedef std::pair<int, int> ValueType; first = lo, second = hi.  Every
\* pair is a possible argument, the ones with first > second included.
ValueType == Coord \X Coord

\* The integers of the closed range [first, second].
Points(v) == v[1]..v[2]

\* The union of the stored intervals.
Coverage(s) == UNION { Points(s[i]) : i \in DOMAIN s }

\* ComparatorType::operator() as written: the value of the return statement.
ComparatorInt(k1, k2) ==
  IF k1[2] < k2[1] THEN -1
  ELSE IF k2[2] < k1[1] THEN 1
  ELSE 0

\* ComparatorType::operator() returns bool: -1 and 1 both convert to true.
ComparatorType(k1, k2) == ComparatorInt(k1, k2) # 0

\* Merge_(combine_with, merged): the new value of *merged.
Merge_(combine_with, merged) ==
  IF merged[1] = combine_with[2]
  THEN <<combine_with[1], merged[2]>>
  ELSE <<merged[1], combine_with[2]>>

(***************************************************************************)
(* std::map over ComparatorType.  The comparator is symmetric on disjoint  *)
(* keys, so it is not a strict weak ordering and the container's searches  *)
(* are outside what the standard defines.  The searches are modelled as    *)
(* the descents of a binary search tree over the iteration order s, the    *)
(* subtree under consideration holding s[l..r-1]; the shape of the tree    *)
(* (the node m met at each step) is not determined by the source, so each  *)
(* operator yields the set of results over every shape that a balanced     *)
(* (red-black) tree of that many nodes can have.                           *)
(***************************************************************************)
\* The sizes a subtree can have when h black nodes lie on each of its paths
\* to a leaf: none or one red node for h = 0, otherwise from all black
\* (2^h - 1) to a red root over alternating levels (2 * 4^h - 1).
SubtreeSizes(h) ==
  IF h = 0 THEN 0..1 ELSE (2^h - 1)..(2 * 4^h - 1)

\* A node can have a nodes to its left and b to its right.
BalancedSplit(a, b) ==
  \E h \in 0..(a + b) : a \in SubtreeSizes(h) /\ b \in SubtreeSizes(h)

\* The nodes that can be the root of the subtree holding s[l..r-1].
Pivots(l, r) == { m \in l..(r - 1) : BalancedSplit(m - l, r - 1 - m) }

RECURSIVE LowerBound(_, _, _, _)
LowerBound(s, l, r, k) ==
  IF l >= r THEN {r}
  ELSE UNION { IF ~ComparatorType(s[m], k)
               THEN LowerBound(s, l, m, k)
               ELSE LowerBound(s, m + 1, r, k) : m \in Pivots(l, r) }

RECURSIVE UpperBound(_, _, _, _)
UpperBound(s, l, r, k) ==
  IF l >= r THEN {r}
  ELSE UNION { IF ComparatorType(k, s[m])
               THEN UpperBound(s, l, m, k)
               ELSE UpperBound(s, m + 1, r, k) : m \in Pivots(l, r) }

\* intervals_.equal_range(k): the pairs <<first, second>> of positions in s
\* (Len(s) + 1 is end()).
RECURSIVE EqualRange(_, _, _, _)
EqualRange(s, l, r, k) ==
  IF l >= r THEN {<<r, r>>}
  ELSE UNION { IF ComparatorType(s[m], k)
               THEN EqualRange(s, m + 1, r, k)
               ELSE IF ComparatorType(k, s[m])
               THEN EqualRange(s, l, m, k)
               ELSE LowerBound(s, l, m, k) \X UpperBound(s, m + 1, r, k)
               : m \in Pivots(l, r) }

\* The descent of a unique insert: <<p, comp>>, the position the new node
\* would take and the result of the last comparison.
RECURSIVE InsertPos(_, _, _, _, _)
InsertPos(s, l, r, k, comp) ==
  IF l >= r THEN {<<l, comp>>}
  ELSE UNION { IF ComparatorType(k, s[m])
               THEN InsertPos(s, l, m, k, TRUE)
               ELSE InsertPos(s, m + 1, r, k, FALSE) : m \in Pivots(l, r) }

InsertAt(s, p, k) == SubSeq(s, 1, p - 1) \o <<k>> \o SubSeq(s, p, Len(s))

\* intervals_.insert(std::pair<KeyType, ValueType>(k, k)): the possible
\* contents afterwards.  The key is dropped when the node before the
\* position found does not compare less than it.
MapInsert(s, k) ==
  { IF (pc[2] /\ pc[1] = 1) \/ (pc[1] > 1 /\ ComparatorType(s[pc[1] - 1], k))
    THEN InsertAt(s, pc[1], k)
    ELSE s : pc \in InsertPos(s, 1, Len(s) + 1, k, TRUE) }

\* intervals_.erase(it) for every it in [first, second).
EraseRange(s, first, second) ==
  SubSeq(s, 1, first - 1) \o SubSeq(s, second, Len(s))

\* Lines 79-90: the do-while over the matched run, from position i up to
\* second, carrying merged and does_not_exist.
RECURSIVE MergeRun(_, _, _, _, _)
MergeRun(s, i, second, test_interval, acc) ==
  LET cur == s[i]
      nxt == [merged |-> Merge_(cur, acc.merged),
              does_not_exist |->
                IF cur[1] <= test_interval[1] /\ test_interval[2] <= cur[2]
                THEN FALSE ELSE acc.does_not_exist]
  IN IF i + 1 >= second THEN nxt
     ELSE MergeRun(s, i + 1, second, test_interval, nxt)

\* Lines 68-105: the possible outcomes [ret, map] of the commented body of
\* Insert on the map s.
InsertBodyOutcomes(s, test_interval) ==
  IF Len(s) > 0
  THEN UNION {
         IF il[1] # il[2]
         THEN LET acc == MergeRun(s, il[1], il[2], test_interval,
                           [merged |-> test_interval, does_not_exist |-> TRUE])
              IN { [ret |-> acc.does_not_exist, map |-> m] :
                     m \in MapInsert(EraseRange(s, il[1], il[2]), acc.merged) }
         ELSE { [ret |-> TRUE, map |-> m] : m \in MapInsert(s, test_interval) }
         : il \in EqualRange(s, 1, Len(s) + 1, test_interval) }
  ELSE { [ret |-> TRUE, map |-> m] : m \in MapInsert(s, test_interval) }

(***************************************************************************)
(* Workers sharing one registry.                                           *)
(***************************************************************************)
\* Number of workers.
NumWorkers == 2

\* Largest index a worker claims; a worker claims one index at a time.
MaxWorkerCoord == 3

\* Number of claims made in a run whose calls are wrapped in a critical
\* section, and in a run whose calls are not.
MaxLockedClaims == 5

MaxRaceClaims == 3

Workers == 1..NumWorkers

WorkerRanges == { <<a, a>> : a \in 0..MaxWorkerCoord }

\* A worker outside Insert.
Idle == [pc |-> "idle", test |-> <<0, 0>>, seen |-> <<>>, first |-> 0, second |-> 0]

\* The first position of key k in s, Len(s) + 1 (end()) when it has none.
PosOf(s, k) ==
  IF \E i \in DOMAIN s : s[i] = k
  THEN CHOOSE i \in DOMAIN s : s[i] = k /\ \A j \in 1..(i - 1) : s[j] # k
  ELSE Len(s) + 1

\* The iterator that was at position i of the map q.seen, as a position of
\* the map s of now: iterators are nodes, and end() stays end().
IterNow(s, q, i) == IF i > Len(q.seen) THEN Len(s) + 1 ELSE PosOf(s, q.seen[i])

\* The iterators kept from the query still denote nodes of the map, first
\* before second.
ItersValid(s, q) ==
  /\ IterNow(s, q, q.first) <= Len(s)
  /\ q.second <= Len(q.seen) => IterNow(s, q, q.second) <= Len(s)
  /\ IterNow(s, q, q.first) < IterNow(s, q, q.second)

(***************************************************************************)
(* The Kde object, its arguments and the objects made with new.            *)
(***************************************************************************)
\* Number of objects made with new in one run.
MaxHeap == 5

\* Largest number of points of a table read from a file.
MaxEntries == 1

\* Largest --num_iterations_in given on the command line; -1 is the least.
MaxIterations == 2

\* The null pointer; a pointer to an object is its position in heap.
NULL == 0

\* A KdeArguments that ParseArguments has not filled.
NoArguments ==
  [parsed |-> FALSE, queries_in |-> FALSE, metric_ |-> NULL,
   reference_table_ |-> NULL, query_table_ |-> NULL,
   effective_num_reference_points_ |-> 0, num_iterations_in_ |-> 0]

\* A Kde on which Init has not been called, is_monochromatic_ being m.
NoKde(m) ==
  [initialised |-> FALSE, reference_table_ |-> NULL, query_table_ |-> NULL,
   is_monochromatic_ |-> m,
   global_ |-> [reference_table |-> NULL, query_table |-> NULL,
                effective_num_reference_points |-> 0, is_monochromatic |-> m]]

\* Compute has not been called.
NotComputing == [pc |-> "idle", num_iterations_in_ |-> 0, i |-> 0, calls |-> <<>>]

\* No KDE is run.
KdeUnused ==
  /\ heap = <<>>
  /\ arguments = NoArguments
  /\ kde = NoKde(FALSE)
  /\ compute = NotComputing

\* The constructed object: an empty map, no call made yet.
InitS ==
  /\ intervals_ = <<>>
  /\ log = <<>>
  /\ pending = [w \in Workers |-> Idle]
  /\ locked = TRUE
  /\ KdeUnused

\* Init() without the clear(): the registry keeps what it held.
InitNoClear ==
  /\ Len(log) < MaxCalls
  /\ intervals_' = intervals_
  /\ log' = Append(log, [op |-> "Init"])
  /\ UNCHANGED <<workerVars, kdeVars>>

\* void Init(): intervals_.clear().
Init ==
  /\ Len(log) < MaxCalls
  /\ intervals_' = <<>>
  /\ log' = Append(log, [op |-> "Init"])
  /\ UNCHANGED <<workerVars, kdeVars>>

\* Insert as a stub that refuses a test interval with first > second.
InsertRefusing ==
  \E test_interval \in ValueType :
    /\ Len(log) < MaxCalls
    /\ intervals_' = intervals_
    /\ log' = Append(log, [op |-> "Insert", arg |-> test_interval,
                           outcome |-> "returned",
                           ret |-> (test_interval[1] <= test_interval[2])])
    /\ UNCHANGED <<workerVars, kdeVars>>

\* Insert as a stub that records the test interval before it returns true.
InsertStoring ==
  \E test_interval \in ValueType :
    /\ Len(log) < MaxCalls
    /\ intervals_' = Append(intervals_, test_interval)
    /\ log' = Append(log, [op |-> "Insert", arg |-> test_interval,
                           outcome |-> "returned", ret |-> TRUE])
    /\ UNCHANGED <<workerVars, kdeVars>>

\* bool Insert(test_interval) as shipped: "return true;" and nothing else.
Insert ==
  \E test_interval \in ValueType :
    /\ Len(log) < MaxCalls
    /\ intervals_' = intervals_
    /\ log' = Append(log, [op |-> "Insert", arg |-> test_interval,
                           outcome |-> "returned", ret |-> TRUE])
    /\ UNCHANGED <<workerVars, kdeVars>>

\* bool Insert(test_interval) with the commented body in place of the stub.
InsertBody ==
  \E test_interval \in ValueType :
    \E o \in InsertBodyOutcomes(intervals_, test_interval) :
      /\ Len(log) < MaxCalls
      /\ intervals_' = o.map
      /\ log' = Append(log, [op |-> "Insert", arg |-> test_interval,
                             outcome |-> "returned", ret |-> o.ret])
      /\ UNCHANGED <<workerVars, kdeVars>>

Next == Init \/ Insert

NextBody == Init \/ InsertBody

Spec == InitS /\ [][Next]_vars

SpecBody == InitS /\ [][NextBody]_vars

\* The registry shared by the workers: constructed, and either every call of
\* Insert is wrapped in a critical section or none is.
InitWorkers ==
  /\ intervals_ = <<>>
  /\ log = <<>>
  /\ pending = [w \in Workers |-> Idle]
  /\ locked \in BOOLEAN
  /\ KdeUnused

\* Claims begun so far.
Begun == Len(log) + Cardinality({ w \in Workers : pending[w].pc # "idle" })

\* Lines 68-74: worker w enters Insert(test_interval), reads size() and
\* takes the equal_range; with an empty map no iterator is taken.
Query(w) ==
  \E test_interval \in WorkerRanges :
    \E il \in (IF Len(intervals_) > 0
               THEN EqualRange(intervals_, 1, Len(intervals_) + 1, test_interval)
               ELSE {<<1, 1>>}) :
      /\ pending[w].pc = "idle"
      /\ locked => \A v \in Workers : pending[v].pc = "idle"
      /\ Begun < (IF locked THEN MaxLockedClaims ELSE MaxRaceClaims)
      /\ pending' = [pending EXCEPT ![w] =
                       [pc |-> "queried", test |-> test_interval,
                        seen |-> intervals_, first |-> il[1], second |-> il[2]]]
      /\ UNCHANGED <<intervals_, log, locked, kdeVars>>

\* Lines 76-105 on the map as it is now: the possible outcomes of the rest
\* of Insert for the query q.  The use of an iterator whose node another
\* worker has erased has no defined outcome; the call is recorded as
\* "undefined" and the map is left as it is.
FinishOutcomes(s, q) ==
  IF q.first = q.second
  THEN { [outcome |-> "returned", ret |-> TRUE, map |-> m] :
           m \in MapInsert(s, q.test) }
  ELSE IF ItersValid(s, q)
  THEN LET f == IterNow(s, q, q.first)
           e == IterNow(s, q, q.second)
           acc == MergeRun(s, f, e, q.test,
                           [merged |-> q.test, does_not_exist |-> TRUE])
       IN { [outcome |-> "returned", ret |-> acc.does_not_exist, map |-> m] :
              m \in MapInsert(EraseRange(s, f, e), acc.merged) }
  ELSE { [outcome |-> "undefined", ret |-> TRUE, map |-> s] }

\* Worker w runs the rest of Insert and returns.
Finish(w) ==
  \E o \in FinishOutcomes(intervals_, pending[w]) :
    /\ pending[w].pc = "queried"
    /\ intervals_' = o.map
    /\ log' = Append(log, [op |-> "Insert", arg |-> pending[w].test,
                           outcome |-> o.outcome, ret |-> o.ret, by |-> w,
                           alone |-> (intervals_ = pending[w].seen)])
    /\ pending' = [pending EXCEPT ![w] = Idle]
    /\ UNCHANGED <<locked, kdeVars>>

NextWorkers == \E w \in Workers : Query(w) \/ Finish(w)

SpecWorkers == InitWorkers /\ [][NextWorkers]_vars

(***************************************************************************)
(* mlpack::kde::Kde: ParseArguments, Init, Compute.                        *)
(***************************************************************************)
\* TableType *query_table(), TableType *reference_table() and
\* bool is_monochromatic() const.
query_table == kde.query_table_

reference_table == kde.reference_table_

is_monochromatic == kde.is_monochromatic_

\* No registry is used, no argument is parsed, and the members of the Kde
\* hold what its construction left in them.
InitKde ==
  /\ intervals_ = <<>>
  /\ log = <<>>
  /\ pending = [w \in Workers |-> Idle]
  /\ locked = TRUE
  /\ heap = <<>>
  /\ arguments = NoArguments
  /\ \E m \in BOOLEAN : kde = NoKde(m)
  /\ compute = NotComputing

\* The new objects of one ParseArguments: the metric, the reference table
\* and, with --queries_in, the query table.
Metric == [kind |-> "metric", n_entries |-> 0]

Table(n) == [kind |-> "table", n_entries |-> n]

\* bool ParseArguments(args, arguments_out) when --help is given: the metric
\* is made (line 210) and the call returns true (lines 214-216).
ParseArgumentsHelp ==
  /\ compute.pc \in {"idle", "done"}
  /\ Len(heap) + 1 <= MaxHeap
  /\ heap' = Append(heap, Metric)
  /\ arguments' = [arguments EXCEPT !.metric_ = Len(heap) + 1]
  /\ UNCHANGED <<registryVars, workerVars, kde, compute>>

\* bool ParseArguments(args, arguments_out) with --queries_in (lines
\* 239-252): a table of its own for the queries.
ParseArgumentsQueries ==
  \E nr \in 0..MaxEntries, nq \in 0..MaxEntries, it \in (-1)..MaxIterations :
    /\ compute.pc \in {"idle", "done"}
    /\ Len(heap) + 3 <= MaxHeap
    /\ heap' = heap \o <<Metric, Table(nr), Table(nq)>>
    /\ arguments' = [parsed |-> TRUE, queries_in |-> TRUE,
                     metric_ |-> Len(heap) + 1,
                     reference_table_ |-> Len(heap) + 2,
                     query_table_ |-> Len(heap) + 3,
                     effective_num_reference_points_ |-> nr,
                     num_iterations_in_ |-> it]
    /\ UNCHANGED <<registryVars, workerVars, kde, compute>>

\* bool ParseArguments(args, arguments_out) without --queries_in (lines
\* 253-257): the reference table serves as the query table.
ParseArgumentsNoQueries ==
  \E nr \in 0..MaxEntries, it \in (-1)..MaxIterations :
    /\ compute.pc \in {"idle", "done"}
    /\ Len(heap) + 2 <= MaxHeap
    /\ heap' = heap \o <<Metric, Table(nr)>>
    /\ arguments' = [parsed |-> TRUE, queries_in |-> FALSE,
                     metric_ |-> Len(heap) + 1,
                     reference_table_ |-> Len(heap) + 2,
                     query_table_ |-> Len(heap) + 2,
                     effective_num_reference_points_ |-> nr - 1,
                     num_iterations_in_ |-> it]
    /\ UNCHANGED <<registryVars, workerVars, kde, compute>>

\* Init with the test of line 71 made on the member query_table_ instead of
\* the argument's.
InitComparesMember ==
  /\ arguments.parsed
  /\ compute.pc \in {"idle", "done"}
  /\ LET mono == (kde.query_table_ = arguments.reference_table_)
         q == IF mono THEN arguments.reference_table_ ELSE arguments.query_table_
     IN kde' = [initialised |-> TRUE,
                reference_table_ |-> arguments.reference_table_,
                query_table_ |-> q,
                is_monochromatic_ |-> mono,
                global_ |-> [reference_table |-> arguments.reference_table_,
                             query_table |-> q,
                             effective_num_reference_points |->
                               arguments.effective_num_reference_points_,
                             is_monochromatic |-> mono]]
  /\ UNCHANGED <<registryVars, workerVars, heap, arguments, compute>>

\* void Kde::Init(arguments_in), lines 70-86.
KdeInit ==
  /\ arguments.parsed
  /\ compute.pc \in {"idle", "done"}
  /\ LET mono == (arguments.query_table_ = arguments.reference_table_)
         q == IF mono THEN arguments.reference_table_ ELSE arguments.query_table_
     IN kde' = [initialised |-> TRUE,
                reference_table_ |-> arguments.reference_table_,
                query_table_ |-> q,
                is_monochromatic_ |-> mono,
                global_ |-> [reference_table |-> arguments.reference_table_,
                             query_table |-> q,
                             effective_num_reference_points |->
                               arguments.effective_num_reference_points_,
                             is_monochromatic |-> mono]]
  /\ UNCHANGED <<registryVars, workerVars, heap, arguments, compute>>

\* Compute(arguments_in, result_out), lines 44-46: the engine is made and
\* initialised with the Kde.
ComputeBegin ==
  /\ kde.initialised
  /\ compute.pc \in {"idle", "done"}
  /\ compute' = [pc |-> "initialised",
                 num_iterations_in_ |-> arguments.num_iterations_in_,
                 i |-> 0, calls |-> <<"Init">>]
  /\ UNCHANGED <<registryVars, workerVars, heap, arguments, kde>>

\* Lines 49-52: the computation in one call, and the count of prunes for
\* the message.
ComputeOneShot ==
  /\ compute.pc = "initialised"
  /\ compute.num_iterations_in_ <= 0
  /\ compute' = [compute EXCEPT
                   !.pc = "done",
                   !.calls = @ \o <<"Compute", "num_deterministic_prunes">>]
  /\ UNCHANGED <<registryVars, workerVars, heap, arguments, kde>>

\* Lines 54-56: the iterator is obtained and the loop begins with i = 0.
GetIterator ==
  /\ compute.pc = "initialised"
  /\ ~(compute.num_iterations_in_ <= 0)
  /\ compute' = [compute EXCEPT !.pc = "loop", !.i = 0,
                                !.calls = Append(@, "get_iterator")]
  /\ UNCHANGED <<registryVars, workerVars, heap, arguments, kde>>

\* The loop of line 56 with i <= num_iterations_in_ as its test.
AdvanceOnceMore ==
  /\ compute.pc = "loop"
  /\ compute.i <= compute.num_iterations_in_
  /\ compute' = [compute EXCEPT !.i = @ + 1, !.calls = Append(@, "++")]
  /\ UNCHANGED <<registryVars, workerVars, heap, arguments, kde>>

\* Lines 56-58: one turn of the loop, ++kde_it.
Advance ==
  /\ compute.pc = "loop"
  /\ compute.i < compute.num_iterations_in_
  /\ compute' = [compute EXCEPT !.i = @ + 1, !.calls = Append(@, "++")]
  /\ UNCHANGED <<registryVars, workerVars, heap, arguments, kde>>

\* Lines 56 and 62: the loop ends and kde_it.Finalize() is called.
Finalize ==
  /\ compute.pc = "loop"
  /\ ~(compute.i < compute.num_iterations_in_)
  /\ compute' = [compute EXCEPT !.pc = "done", !.calls = Append(@, "Finalize")]
  /\ UNCHANGED <<registryVars, workerVars, heap, arguments, kde>>

NextKde ==
  \/ ParseArgumentsHelp
  \/ ParseArgumentsQueries
  \/ ParseArgumentsNoQueries
  \/ KdeInit
  \/ ComputeBegin
  \/ ComputeOneShot
  \/ GetIterator
  \/ Advance
  \/ Finalize

SpecKde == InitKde /\ [][NextKde]_vars

(***************************************************************************)
(* Vocabulary of the properties.                                           *)
(***************************************************************************)
\* The stored intervals as a set.
Stored(s) == { s[i] : i \in DOMAIN s }

Valid(t) == t[1] <= t[2]

\* a and b share at least one integer.
Overlap(a, b) == ~(a[2] < b[1] \/ b[2] < a[1])

\* a and b are next to each other with no integer between them.
Touch(a, b) == a[2] + 1 = b[1] \/ b[2] + 1 = a[1]

Contains(s, t) == s[1] <= t[1] /\ t[2] <= s[2]

Min(S) == CHOOSE x \in S : \A y \in S : x <= y

Max(S) == CHOOSE x \in S : \A y \in S : y <= x

\* Every Insert made so far was given first <= second.
ValidLog == \A i \in DOMAIN log : log[i].op = "Insert" => Valid(log[i].arg)

\* The step is a call of Insert on test interval t / a call of Init.
InsertStep(t) ==
  /\ Len(log') = Len(log) + 1
  /\ log'[Len(log')].op = "Insert"
  /\ log'[Len(log')].arg = t

InitStep ==
  /\ Len(log') = Len(log) + 1
  /\ log'[Len(log')].op = "Init"

\* What the call of the step returned.
Ret == log'[Len(log')].ret

C4_CoverageMonotone ==
  [][\A t \in ValueType :
       (InsertStep(t) /\ ValidLog') =>
         Coverage(intervals_') = Coverage(intervals_) \cup Points(t)]_vars

C7_DisjointStaySeparate ==
  [][\A t \in ValueType :
       (/\ InsertStep(t) /\ ValidLog'
        /\ \A s \in Stored(intervals_) : ~Overlap(s, t) /\ ~Touch(s, t)) =>
         /\ Ret = TRUE
         /\ Stored(intervals_') = Stored(intervals_) \cup {t}
         /\ Len(intervals_') = Len(intervals_) + 1]_vars

(***************************************************************************)
(* C8.  On an empty registry Insert(t), first <= second, returns true and  *)
(* the registry afterwards holds exactly t, single points included.        *)
(***************************************************************************)
C8_FirstClaim ==
  [][\A t \in ValueType :
       (InsertStep(t) /\ Valid(t) /\ intervals_ = <<>>) =>
         (Ret = TRUE /\ intervals_' = <<t>>)]_vars

C10_PreconditionFailsLoudly ==
  [][\A t \in ValueType :
       (InsertStep(t) /\ ~Valid(t)) =>
         (log'[Len(log')].outcome = "error" /\ intervals_' = intervals_)]_vars

(***************************************************************************)
(* C11.  When every claim runs as one atomic step (the calls are wrapped   *)
(* in a critical section), no state is reached in which two workers        *)
(* claimed overlapping ranges, both saw no covering interval and returned  *)
(* true, both inserted, and the registry holds two overlapping intervals;  *)
(* such a state is reached only when the query and the erase/insert of     *)
(* two calls interleave.                                                   *)
(***************************************************************************)
\* Two workers were both granted overlapping ranges and the registry holds
\* two intervals that overlap.
BothInsertedOverlapping ==
  /\ \E i, j \in DOMAIN log :
       /\ i < j /\ log[i].by # log[j].by
       /\ Overlap(log[i].arg, log[j].arg)
       /\ log[i].outcome = "returned" /\ log[i].ret
       /\ log[j].outcome = "returned" /\ log[j].ret
  /\ \E i, j \in DOMAIN intervals_ :
       i # j /\ Overlap(intervals_[i], intervals_[j])

SameClaim(i, j) ==
  /\ i < j
  /\ log[i].op = "Insert" /\ log[j].op = "Insert"
  /\ log[i].arg = log[j].arg /\ Valid(log[i].arg)
  /\ \A k \in i..j : log[k].op = "Insert"

C12_NoDoubleGrant ==
  \A i, j \in DOMAIN log :
    SameClaim(i, j) => ~(log[i].ret /\ log[j].ret)

(***************************************************************************)
(* C13.  On the stored intervals, when no two of them overlap, the         *)
(* comparator is a strict weak ordering: comp(a, a) is false, comp(a, b)   *)
(* and comp(b, a) are never both true, comp(a, b) is true exactly when     *)
(* a.hi < b.lo, and comp is transitive.                                    *)
(***************************************************************************)
\* No two entries of s overlap.
PairwiseNonOverlapping(s) ==
  \A i, j \in DOMAIN s : i # j => ~Overlap(s[i], s[j])

C13_StrictWeakOrdering ==
  (ValidLog /\ PairwiseNonOverlapping(intervals_)) =>
    \A a, b \in Stored(intervals_) :
      /\ ~ComparatorType(a, a)
      /\ ~(ComparatorType(a, b) /\ ComparatorType(b, a))
      /\ ComparatorType(a, b) <=> a[2] < b[1]
      /\ \A c \in Stored(intervals_) :
           (ComparatorType(a, b) /\ ComparatorType(b, c)) => ComparatorType(a, c)

(***************************************************************************)
(* C14.  For a claim t and a stored interval s that overlaps or touches t  *)
(* (s.hi + 1 = t.lo or t.hi + 1 = s.lo), neither comp(s, t) nor comp(t, s) *)
(* is true, and the equal range taken for t holds s.                       *)
(***************************************************************************)
C14_TouchPolicy ==
  [][\A t \in ValueType :
       (InsertStep(t) /\ ValidLog') =>
         \A i \in DOMAIN intervals_ :
           (Overlap(intervals_[i], t) \/ Touch(intervals_[i], t)) =>
             /\ ~ComparatorType(intervals_[i], t)
             /\ ~ComparatorType(t, intervals_[i])
             /\ \A il \in EqualRange(intervals_, 1, Len(intervals_) + 1, t) :
                  il[1] <= i /\ i < il[2]]_vars

C16_StubAlwaysTrue ==
  /\ \A i \in DOMAIN log :
       log[i].op = "Insert" => (log[i].outcome = "returned" /\ log[i].ret = TRUE)
  /\ Len(log) < MaxCalls =>
       \A t \in ValueType : ENABLED (Insert /\ InsertStep(t) /\ Ret = TRUE)

\* The same interval was claimed twice and an interval with first > second
\* once, and every call returned true.
C16_Witness ==
  /\ Len(log) = 3
  /\ \A i \in 1..3 : log[i].op = "Insert" /\ log[i].ret = TRUE
  /\ log[1].arg = log[2].arg /\ Valid(log[1].arg)
  /\ ~Valid(log[3].arg)

(***************************************************************************)
(* C17.  With the shipped Insert the map is empty in every state reached   *)
(* by calls of Init and Insert: Insert adds, removes and changes nothing.  *)
(***************************************************************************)
C17_ShippedMapEmpty == intervals_ = <<>>

\* Insert was called before and after an Init, on intervals with
\* first <= second.
C17_Witness ==
  /\ Len(log) = 3
  /\ log[1].op = "Insert" /\ Valid(log[1].arg)
  /\ log[2].op = "Init"
  /\ log[3].op = "Insert" /\ Valid(log[3].arg) /\ log[3].arg # log[1].arg

(***************************************************************************)
(* C18.  In Kde::Compute the engine's Init is the first call and is made   *)
(* once.  With num_iterations_in_ <= 0 the engine's Compute is called      *)
(* once and no iterator is obtained, advanced or finalized.  With          *)
(* num_iterations_in_ = n > 0 the iterator is obtained once, advanced n    *)
(* times and finalized once, after the last advance, and the engine's      *)
(* Compute is not called.                                                  *)
(***************************************************************************)
\* How many times Compute has made the call c.
Count(c) == Cardinality({ k \in DOMAIN compute.calls : compute.calls[k] = c })

C18_ComputeOrdering ==
  LET n == compute.num_iterations_in_
      calls == compute.calls
      returned == (compute.pc = "done")
  IN /\ calls # <<>> => (calls[1] = "Init" /\ Count("Init") = 1)
     /\ n <= 0 =>
          /\ Count("get_iterator") = 0 /\ Count("++") = 0 /\ Count("Finalize") = 0
          /\ Count("Compute") <= 1
          /\ returned => Count("Compute") = 1
     /\ n > 0 =>
          /\ Count("Compute") = 0
          /\ Count("get_iterator") <= 1 /\ Count("++") <= n /\ Count("Finalize") <= 1
          /\ \A k \in DOMAIN calls :
               calls[k] \in {"++", "Finalize"} =>
                 \E j \in 1..(k - 1) : calls[j] = "get_iterator"
          /\ Count("Finalize") = 1 =>
               (calls[Len(calls)] = "Finalize" /\ Count("++") = n)
          /\ returned =>
               (Count("get_iterator") = 1 /\ Count("++") = n /\ Count("Finalize") = 1)

\* Compute has returned from a run of two or more iterations.
C18_Witness ==
  /\ compute.pc = "done"
  /\ compute.num_iterations_in_ >= 2
  /\ compute.calls[Len(compute.calls)] = "Finalize"

(***************************************************************************)
(* C19.  After Kde::Init, is_monochromatic() is true exactly when          *)
(* query_table() and reference_table() are the same table.  After          *)
(* ParseArguments without --queries_in the query table is the reference    *)
(* table and effective_num_reference_points_ is the number of reference    *)
(* points minus one; with --queries_in it is the number of reference       *)
(* points.                                                                 *)
(***************************************************************************)
C19_MonochromaticConsistency ==
  /\ kde.initialised => (is_monochromatic <=> query_table = reference_table)
  /\ arguments.parsed =>
       LET n_entries == heap[arguments.reference_table_].n_entries
       IN IF arguments.queries_in
          THEN arguments.effective_num_reference_points_ = n_entries
          ELSE /\ arguments.query_table_ = arguments.reference_table_
               /\ arguments.effective_num_reference_points_ = n_entries - 1

\* Init was called with arguments parsed without --queries_in, and
\* ParseArguments has since been called with --queries_in.
C19_Witness ==
  /\ kde.initialised
  /\ kde.query_table_ = kde.reference_table_
  /\ heap[kde.reference_table_].n_entries > 0
  /\ arguments.parsed /\ arguments.queries_in
  /\ arguments.reference_table_ # kde.reference_table_

====
